---- MODULE Spec2Model ----
(***************************************************************************)
(* Model of the IP spoofing detector (src/spoofing/spoofing.cpp).          *)
(*                                                                         *)
(* Machine words are modelled as the set of positions of their 1-bits, so  *)
(* that & is \cap, | is \cup and a shift is a set of positions; this keeps *)
(* the full 32/64-bit width of the source.  An address is its 16 bytes in  *)
(* storage (network) order; the ui32[]/ui64[] views are read the way a     *)
(* little-endian host (the x86 builds of the module) reads them.  64-bit   *)
(* timestamps are four 16-bit limbs, most significant first, so that the   *)
(* unsigned subtraction of the source is computed modulo 2^64.             *)
(***************************************************************************)
EXTENDS Integers, Sequences, FiniteSets, TLC

(* ------------------------------ bounds --------------------------------- *)
\* number of records the input interface delivers in a run of IPv4 records
MaxRecords == 3
\* number of records it delivers in a run that has IPv6 records, and in the
\* runs on the prefix lookups
MaxRecordsV6 == 2
\* number of bits of a modelled Bloom filter (the real one has ~9.6e6 bits)
BloomBits == 11
\* log replay: data lines of the CSV file, and the greatest argument of -c
MaxLines == 3
MaxCount == 2
\* multiplexer: input interfaces (one capture thread each), and receives of
\* all threads together
MaxInputs == 2
MaxReceives == 2

(* ------------------------------- state --------------------------------- *)
VARIABLES
    pc,              \* where main is: "start", "loop", "cleanup", "exit", "crashed"
    exit_code,       \* the value main returned, NotExited before it returns
    recv,            \* what the last trap_get_data of the loop gave: retval, data_size
    stop,            \* the flag set by signal_handler
    bf_active,       \* index of the active side of a filter pair
    bf_learning,     \* index of the learning side of a filter pair
    cfg,             \* the command line and the files, and what main builds of
                     \* them before the loop: prefix lists, masks, options
    v4_route_sym,    \* symmetry map, IPv4: key -> sym_src_t
    v6_route_sym,    \* symmetry map, IPv6: key -> sym_src_t
    v4_flows,        \* flow_filter_t[2], IPv4
    v6_flows,        \* flow_filter_t[2], IPv6
    cnt,             \* the counters v4, v6, spoof_count, bogons, syms, nflows
    out,             \* the records handed to trap_send_data, in order
    last,            \* history: the record of the last iteration and its verdicts
    hist,            \* history: what the claims need of the earlier iterations
    replay,          \* the log replay module: its position, options, file, output
    mux              \* the multiplexer: main, the globals, the capture threads

spoofing_vars == <<pc, exit_code, recv, stop, bf_active, bf_learning, cfg, v4_route_sym,
                   v6_route_sym, v4_flows, v6_flows, cnt, out, last, hist>>

vars == <<spoofing_vars, replay, mux>>

(* --------------------------- words and bytes --------------------------- *)
\* On a little-endian host bit k of byte j of an object is bit 8j+k of the
\* object read as one word, whatever the width of the lanes it is read in:
\* an object is modelled as the set of these positions.

\* the n-bit lane of w that starts at bit lo
Lane(w, lo, n) == {p - lo : p \in {q \in w : q >= lo /\ q < lo + n}}

\* w with its n-bit lane at bit lo replaced by v
SetLane(w, lo, n, v) == {q \in w : q < lo \/ q >= lo + n} \cup {p + lo : p \in v}

\* the value of byte j (from 0) of w
ByteOf(w, j) ==
    (IF 8 * j \in w THEN 1 ELSE 0) + (IF 8 * j + 1 \in w THEN 2 ELSE 0)
    + (IF 8 * j + 2 \in w THEN 4 ELSE 0) + (IF 8 * j + 3 \in w THEN 8 ELSE 0)
    + (IF 8 * j + 4 \in w THEN 16 ELSE 0) + (IF 8 * j + 5 \in w THEN 32 ELSE 0)
    + (IF 8 * j + 6 \in w THEN 64 ELSE 0) + (IF 8 * j + 7 \in w THEN 128 ELSE 0)

\* the 1-bits of the byte b, as byte j (from 0) of an object
ByteBits(b, j) ==
    {8 * j + k : k \in {i \in 0..7 : (b \div (CASE i = 0 -> 1 [] i = 1 -> 2 [] i = 2 -> 4
                                                [] i = 3 -> 8 [] i = 4 -> 16 [] i = 5 -> 32
                                                [] i = 6 -> 64 [] OTHER -> 128)) % 2 = 1}}

\* the object made of the bytes of the sequence bytes, in storage order
FromBytes(bytes) == UNION {ByteBits(bytes[j], j - 1) : j \in DOMAIN bytes}

\* sign of memcmp(x, y, n): the first byte that differs decides, and in it the
\* most significant bit that differs
memcmp(x, y, n) ==
    LET d == {p \in (x \ y) \cup (y \ x) : p < 8 * n}
    IN  IF d = {} THEN 0
        ELSE LET j == CHOOSE b \in {p \div 8 : p \in d} : \A c \in {p \div 8 : p \in d} : b <= c
                 top == CHOOSE p \in d : p \div 8 = j /\ \A q \in d : q \div 8 = j => q <= p
             IN  IF top \in x THEN 1 ELSE -1

\* ntohl / htonl on a little-endian host: the four bytes are reversed
ntohl(w) == {8 * (3 - (p \div 8)) + (p % 8) : p \in w}

(* ------------------------------ addresses ------------------------------ *)
\* ip_addr_t: the 16 bytes (aliased by the ui8/ui32/ui64 views) and the
\* family tag fam
Addr(fam, bytes) == [fam |-> fam, bits |-> FromBytes(bytes)]

\* an IPv4 address: it occupies lane ui32[2], i.e. bytes 8..11 of the storage
V4(a, b, c, d) == Addr(4, <<0, 0, 0, 0, 0, 0, 0, 0, a, b, c, d, 0, 0, 0, 0>>)

\* an IPv6 address from its 16 bytes
V6(bytes) == Addr(6, bytes)

ui8(a) == a.bits
ui32(a, i) == Lane(a.bits, 32 * i, 32)
ui64(a, i) == Lane(a.bits, 64 * i, 64)

\* the address a with its ui64[i] replaced by the word w
SetUi64(a, i, w) == [a EXCEPT !.bits = SetLane(@, 64 * i, 64, w)]

\* the address a with its ui32[i] replaced by the word w
SetUi32(a, i, w) == [a EXCEPT !.bits = SetLane(@, 32 * i, 32, w)]

ip_is4(a) == a.fam = 4

\* the IPv4 address as a host-order integer
ip_get_v4_as_int(a) == ntohl(ui32(a, 2))

\* the address whose 16 bytes are those of a in reverse order
ip_from_16_bytes_le(a) == [a EXCEPT !.bits = {8 * (15 - (p \div 8)) + (p % 8) : p \in @}]

(* ------------------------------ constants ------------------------------ *)
SPOOF_POSITIVE == "POSITIVE"
SPOOF_NEGATIVE == "NEGATIVE"
\* default of -s, the symmetry rewrite window
SYM_RW_DEFAULT == 45
\* the return values of load_pref
ALL_OK == 0
BOGON_FILE_ERROR == 1
\* the return values of main
EXIT_SUCCESS == 0
EXIT_FAILURE == 1
NotExited == -1

\* results of trap_get_data: the call succeeded, the interface is terminated,
\* any other failure; and what it gave, the return value and the data size
TRAP_E_OK == "TRAP_E_OK"
TRAP_E_TERMINATED == "TRAP_E_TERMINATED"
TRAP_E_IO_ERROR == "TRAP_E_IO_ERROR"
Received(retval, data_size) == [retval |-> retval, data_size |-> data_size]
NoData == Received("none", 0)

\* sizeof(ur_basic_flow_t), of the fields the filters read: two addresses,
\* first, linkbitfield, dirbitfield
sizeof_ur_basic_flow_t == 16 + 16 + 8 + 8 + 1

All32 == 0..31
All64 == 0..63

\* w >> n for a shift count 0 <= n < width
Shr(w, n) == {p - n : p \in {q \in w : q >= n}}

(* ------------------------------ mask tables ---------------------------- *)
create_v4_mask_map ==
    [i \in 0..32 |-> IF i = 0 THEN {} ELSE Shr(All32, 32 - i)]

\* The shift count 64 - i is negative for i > 64, which is undefined: the
\* outcomes modelled are the one of the x86 shift instruction, which takes the
\* count modulo 64 ("wrap"), and a folded constant 0 ("zero").
ShiftOutcomes == {"wrap", "zero"}

create_v6_mask_map(ub) ==
    [i \in 0..128 |->
        IF i = 0 THEN <<{}, {}>>
        ELSE IF i < 64 THEN <<Shr(All64, 64 - i), {}>>
        ELSE <<All64,
               IF i = 64 THEN Shr(All64, 0)
               ELSE IF ub = "wrap" THEN Shr(All64, (64 - i) % 64)
               ELSE {}>>]

(* ------------------------------ prefix sets ---------------------------- *)
Prefix(ip, len) == [ip |-> ip, pref_length |-> len]

sort_by_prefix_v4(addr1, addr2) == memcmp(ui32(addr1.ip, 2), ui32(addr2.ip, 2), 4) < 0

sort_by_prefix_v6(addr1, addr2) == memcmp(ui8(addr1.ip), ui8(addr2.ip), 16) < 0

\* A prefix file: whether it can be opened, and the prefixes of its lines
\* that ip_from_str accepts, in the order of the file.
PrefixFile(open, lines) == [open |-> open, lines |-> lines]

\* the file that cannot be opened; the empty file name of an absent -c is one
NoFile == PrefixFile(FALSE, <<>>)

IsPrefixV4(pref) == ip_is4(pref.ip)
IsPrefixV6(pref) == ~ip_is4(pref.ip)

\* the return value and the two lists as the call leaves them, for lists that
\* are empty at the call
load_pref(bogon_file) ==
    IF ~bogon_file.open
    THEN [ret |-> BOGON_FILE_ERROR, v4 |-> <<>>, v6 |-> <<>>]
    ELSE [ret |-> ALL_OK,
          v4 |-> SortSeq(SelectSeq(bogon_file.lines, IsPrefixV4), sort_by_prefix_v4),
          v6 |-> SortSeq(SelectSeq(bogon_file.lines, IsPrefixV6), sort_by_prefix_v6)]

(* ------------------------------ bogon filter --------------------------- *)
RECURSIVE v4_bogon_search(_, _, _, _, _)
v4_bogon_search(checked, prefix_list, v4mm, begin, end) ==
    IF begin > end THEN SPOOF_NEGATIVE
    ELSE LET mid == (begin + end) \div 2
             masked == ui32(checked.src_addr, 2) \cap v4mm[prefix_list[mid + 1].pref_length]
             mask_result == memcmp(ui32(prefix_list[mid + 1].ip, 2), masked, 4)
         IN  IF mask_result < 0 THEN v4_bogon_search(checked, prefix_list, v4mm, mid + 1, end)
             ELSE IF mask_result = 0 THEN SPOOF_POSITIVE
             ELSE v4_bogon_search(checked, prefix_list, v4mm, begin, mid - 1)

v4_bogon_filter(checked, prefix_list, v4mm) ==
    v4_bogon_search(checked, prefix_list, v4mm, 0, Len(prefix_list) - 1)

\* the 16 bytes of an ip_addr_t given as its two 64-bit words
Both(words) == words[1] \cup {p + 64 : p \in words[2]}

\* masked is the local ip_addr_t of the filter, as its two 64-bit words; it is
\* not initialised, so its words hold what the caller passes until the loop
\* assigns them
RECURSIVE v6_bogon_search(_, _, _, _, _, _)
v6_bogon_search(checked, prefix_list, v6mm, begin, end, masked) ==
    IF begin > end THEN SPOOF_NEGATIVE
    ELSE LET mid == (begin + end) \div 2
             pref == prefix_list[mid + 1]
             short == pref.pref_length <= 64
             masked2 == IF short
                        THEN <<ui64(checked.src_addr, 0) \cap v6mm[pref.pref_length][1], masked[2]>>
                        ELSE <<masked[1], ui64(checked.src_addr, 1) \cap v6mm[pref.pref_length][2]>>
             mask_result == IF short
                            THEN memcmp(ui64(pref.ip, 0), masked2[1], 8)
                            ELSE memcmp(ui8(pref.ip), Both(masked2), 16)
         IN  IF mask_result < 0
             THEN v6_bogon_search(checked, prefix_list, v6mm, mid + 1, end, masked2)
             ELSE IF mask_result = 0 THEN SPOOF_POSITIVE
             ELSE v6_bogon_search(checked, prefix_list, v6mm, begin, mid - 1, masked2)

v6_bogon_filter(checked, prefix_list, v6mm, garbage) ==
    v6_bogon_search(checked, prefix_list, v6mm, 0, Len(prefix_list) - 1, garbage)

(* ------------------------------ timestamps ----------------------------- *)
\* a uint64_t as four 16-bit limbs, most significant first
Limb == 256 * 256
U64(n) == <<0, 0, n \div Limb, n % Limb>>

\* first & 0xFFFFFFFF00000000
HighHalf(t) == <<t[1], t[2], 0, 0>>

\* a - b modulo 2^64
Sub64(a, b) ==
    LET d4 == a[4] - b[4]
        c4 == IF d4 < 0 THEN 1 ELSE 0
        d3 == a[3] - b[3] - c4
        c3 == IF d3 < 0 THEN 1 ELSE 0
        d2 == a[2] - b[2] - c3
        c2 == IF d2 < 0 THEN 1 ELSE 0
        d1 == a[1] - b[1] - c2
    IN  <<(d1 + Limb) % Limb, (d2 + Limb) % Limb, (d3 + Limb) % Limb, (d4 + Limb) % Limb>>

\* unsigned a < b
Lt64(a, b) ==
    \E i \in 1..4 : a[i] < b[i] /\ \A j \in 1..(i - 1) : a[j] = b[j]

\* the seconds of a timestamp: its upper 32 bits
Seconds(t) == t[1] * Limb + t[2]

(* ------------------------ symmetric routing filter --------------------- *)
\* sym_src_t
SymSrc(link, timestamp) == [link |-> link, timestamp |-> timestamp]

\* an insert that ages the entry of a key that is in the map out of it
MapInsert_evicts(src, key, val) ==
    IF key \in DOMAIN src THEN [k \in DOMAIN src \ {key} |-> src[k]]
    ELSE [k \in DOMAIN src \cup {key} |-> IF k = key THEN val ELSE src[k]]

\* std::map::insert: the pair is stored only when the key is not in the map
MapInsert(src, key, val) ==
    IF key \in DOMAIN src THEN src
    ELSE [k \in DOMAIN src \cup {key} |-> IF k = key THEN val ELSE src[k]]

\* the conversion of an unsigned 64-bit value to int keeps its low 32 bits
ToInt(w) == w \cap All32

\* check_symetry_v4 with the test of the direction inverted
check_symetry_v4_inverted(record, src, rw_time) ==
    IF record.dirbitfield # 0
    THEN LET v4_numeric == ip_get_v4_as_int(record.dst_addr) \cap (8..31)
         IN  IF v4_numeric \in DOMAIN src
                /\ Lt64(Sub64(HighHalf(record.first), src[v4_numeric].timestamp), U64(rw_time))
             THEN [ret |-> SPOOF_NEGATIVE,
                   src |-> [src EXCEPT ![v4_numeric] =
                               SymSrc(@.link \cup record.linkbitfield, record.first)]]
             ELSE [ret |-> SPOOF_NEGATIVE,
                   src |-> MapInsert(src, v4_numeric,
                                     SymSrc(record.linkbitfield, record.first))]
    ELSE LET v4_numeric == ip_get_v4_as_int(record.src_addr) \cap (8..31)
         IN  IF v4_numeric \in DOMAIN src
             THEN LET valid == ToInt(src[v4_numeric].link \cap record.linkbitfield)
                  IN  [ret |-> IF valid = {} THEN SPOOF_POSITIVE ELSE SPOOF_NEGATIVE,
                       src |-> src]
             ELSE [ret |-> SPOOF_NEGATIVE, src |-> src]

\* the result is the return value and the map as the call leaves it
check_symetry_v4(record, src, rw_time) ==
    IF record.dirbitfield = 0
    THEN LET v4_numeric == ip_get_v4_as_int(record.dst_addr) \cap (8..31)
         IN  IF v4_numeric \in DOMAIN src
                /\ Lt64(Sub64(HighHalf(record.first), src[v4_numeric].timestamp), U64(rw_time))
             THEN [ret |-> SPOOF_NEGATIVE,
                   src |-> [src EXCEPT ![v4_numeric] =
                               SymSrc(@.link \cup record.linkbitfield, record.first)]]
             ELSE [ret |-> SPOOF_NEGATIVE,
                   src |-> MapInsert(src, v4_numeric,
                                     SymSrc(record.linkbitfield, record.first))]
    ELSE LET v4_numeric == ip_get_v4_as_int(record.src_addr) \cap (8..31)
         IN  IF v4_numeric \in DOMAIN src
             THEN LET valid == ToInt(src[v4_numeric].link \cap record.linkbitfield)
                  IN  [ret |-> IF valid = {} THEN SPOOF_POSITIVE ELSE SPOOF_NEGATIVE,
                       src |-> src]
             ELSE [ret |-> SPOOF_NEGATIVE, src |-> src]

\* the two 64-bit halves of the address exchanged
SwapHalves(a) == SetUi64(SetUi64(a, 1, ui64(a, 0)), 0, ui64(a, 1))

\* the record as check_symetry_v6 rewrites it in place before it uses it
swap_record_v6(record) ==
    [record EXCEPT !.src_addr = SwapHalves(ip_from_16_bytes_le(@)),
                   !.dst_addr = SwapHalves(ip_from_16_bytes_le(@))]

\* the result is the return value, the map and the record as the call leaves
\* them; garbage is the value of the timestamp that src_rec never gets
check_symetry_v6(record0, src, rw_time, garbage) ==
    LET record == swap_record_v6(record0)
    IN  IF record.dirbitfield = 0
        THEN LET key == ui64(record.dst_addr, 0)
             IN  IF key \in DOMAIN src
                    /\ Lt64(Sub64(HighHalf(record.first), src[key].timestamp), U64(rw_time))
                 THEN [ret |-> SPOOF_NEGATIVE, record |-> record,
                       src |-> [src EXCEPT ![key].link = @ \cup record.linkbitfield]]
                 ELSE [ret |-> SPOOF_NEGATIVE, record |-> record,
                       src |-> MapInsert(src, key, SymSrc(record.linkbitfield, garbage))]
        ELSE LET key == ui64(record.src_addr, 0)
             IN  IF key \in DOMAIN src
                 THEN LET valid == ToInt(src[key].link \cap record.linkbitfield)
                      IN  [ret |-> IF valid = {} THEN SPOOF_POSITIVE ELSE SPOOF_NEGATIVE,
                           record |-> record, src |-> src]
                 ELSE [ret |-> SPOOF_NEGATIVE, record |-> record, src |-> src]

(* ------------------------------ text form ------------------------------ *)
INET6_ADDRSTRLEN == 46

RECURSIVE Dec(_)
\* the decimal digits of n, as character codes
Dec(n) == IF n < 10 THEN <<48 + n>> ELSE Dec(n \div 10) \o <<48 + (n % 10)>>

RECURSIVE Hex(_)
\* the lower-case hexadecimal digits of n, as character codes
Hex(n) == LET d == n % 16
              c == IF d < 10 THEN 48 + d ELSE 87 + d
          IN  IF n < 16 THEN <<c>> ELSE Hex(n \div 16) \o <<c>>

\* the eight 16-bit groups of an IPv6 address
Groups(a) == [i \in 1..8 |-> 256 * ByteOf(a.bits, 2 * i - 2) + ByteOf(a.bits, 2 * i - 1)]

RECURSIVE ZeroRun(_, _)
\* the number of consecutive zero groups of g from position i on
ZeroRun(g, i) == IF i > 8 \/ g[i] # 0 THEN 0 ELSE 1 + ZeroRun(g, i + 1)

\* where the "::" of the text form starts: the first longest run of at least
\* two zero groups, or 0 when there is none
BestRun(g) ==
    LET starts == {i \in 1..8 : ZeroRun(g, i) >= 2 /\ (i = 1 \/ g[i - 1] # 0)}
    IN  IF starts = {} THEN 0
        ELSE CHOOSE i \in starts :
                \A j \in starts : ZeroRun(g, j) < ZeroRun(g, i)
                                  \/ (ZeroRun(g, j) = ZeroRun(g, i) /\ i <= j)

RECURSIVE ntop6(_, _, _)
ntop6(g, base, i) ==
    IF i > 8 THEN (IF base # 0 /\ base + ZeroRun(g, base) = 9 THEN <<58>> ELSE <<>>)
    ELSE IF base # 0 /\ i >= base /\ i < base + ZeroRun(g, base)
         THEN (IF i = base THEN <<58>> ELSE <<>>) \o ntop6(g, base, i + 1)
         ELSE (IF i # 1 THEN <<58>> ELSE <<>>) \o Hex(g[i]) \o ntop6(g, base, i + 1)

\* the characters ip_to_str writes, without the terminating NUL
ip_to_str(a) ==
    IF ip_is4(a)
    THEN Dec(ByteOf(a.bits, 8)) \o <<46>> \o Dec(ByteOf(a.bits, 9)) \o <<46>>
         \o Dec(ByteOf(a.bits, 10)) \o <<46>> \o Dec(ByteOf(a.bits, 11))
    ELSE ntop6(Groups(a), BestRun(Groups(a)), 1)

\* the INET6_ADDRSTRLEN bytes of a buffer that was not initialised and then
\* received text and its NUL: the bytes behind the NUL keep what they held
KeyBuffer(text, garbage) ==
    [j \in 1..INET6_ADDRSTRLEN |->
        IF j <= Len(text) THEN text[j] ELSE IF j = Len(text) + 1 THEN 0 ELSE garbage]

(* ------------------------------ Bloom filter --------------------------- *)
RECURSIVE HashFold(_, _, _, _)
\* a multiplicative hash of the bytes of the key from position i on
HashFold(key, i, h, mult) ==
    IF i > Len(key) THEN h ELSE HashFold(key, i + 1, (h * mult + key[i]) % 65521, mult)

\* the bit positions of a key: two hash functions over all bytes of the key
BloomHash(key) == {HashFold(key, 1, 1, 31) % BloomBits, HashFold(key, 1, 7, 37) % BloomBits}

bloom_contains(bits, key) == BloomHash(key) \subseteq bits
bloom_insert(bits, key) == bits \cup BloomHash(key)

\* flow_count_t
FlowCount(sources, count) == [sources |-> sources, count |-> count]

create_nflow_filters(length) ==
    [side \in {0, 1} |-> [i \in 1..length |-> FlowCount({}, 0)]]

\* swap_filters, on the pair of the side indices
swap_filters(sides) == [bf_active |-> sides.bf_learning, bf_learning |-> sides.bf_active]

\* a clear_filters that leaves the side as it is
clear_filters_keeps(filter_set) == filter_set

\* clear_filters: every Bloom filter of the side emptied, every count 0
clear_filters(filter_set) == [i \in DOMAIN filter_set |-> FlowCount({}, 0)]

(* ------------------------------ new-flow filter ------------------------ *)
\* a rotation block that clears the learning side for every record
rotation_clears(filter, record) == [filter EXCEPT ![bf_learning] = clear_filters(@)]

\* The block of the new-flow filters that swaps and clears the filters on the
\* timestamps is inside a comment: the filter pair is used as it is.
rotation(filter, record) == filter

\* The search loops of the new-flow filters leave the loop with the pair
\* <<search_result, mid>>.  Neither local is initialised: with an empty
\* prefix list the pair is what the caller passes.
RECURSIVE nf_search_v4(_, _, _, _, _, _, _)
nf_search_v4(record, prefix_list, mm, begin, end, search_result, mid) ==
    IF begin > end THEN <<search_result, mid>>
    ELSE LET m == (begin + end) \div 2
             masked == ui32(record.dst_addr, 2) \cap mm[prefix_list[m + 1].pref_length]
             res == memcmp(ui32(prefix_list[m + 1].ip, 2), masked, 4)
         IN  IF res < 0 THEN nf_search_v4(record, prefix_list, mm, m + 1, end, res, m)
             ELSE IF res > 0 THEN nf_search_v4(record, prefix_list, mm, begin, m - 1, res, m)
             ELSE <<res, m>>

RECURSIVE nf_search_v6(_, _, _, _, _, _, _, _)
nf_search_v6(record, prefix_list, mm, begin, end, search_result, mid, masked) ==
    IF begin > end THEN <<search_result, mid>>
    ELSE LET m == (begin + end) \div 2
             pref == prefix_list[m + 1]
             long == pref.pref_length > 64
             masked2 == IF long
                        THEN <<ui64(record.src_addr, 0) \cap mm[pref.pref_length][1], masked[2]>>
                        ELSE <<masked[1], ui64(record.src_addr, 1) \cap mm[pref.pref_length][2]>>
             res == IF long
                    THEN memcmp(ui64(pref.ip, 0), masked2[1], 8)
                    ELSE memcmp(ui8(pref.ip), Both(masked2), 16)
         IN  IF res < 0 THEN nf_search_v6(record, prefix_list, mm, m + 1, end, res, m, masked2)
             ELSE IF res > 0 THEN nf_search_v6(record, prefix_list, mm, begin, m - 1, res, m, masked2)
             ELSE <<res, m>>

\* What both filters do once the search has left <<search_result, mid>> and
\* the aggregated source is in masked.  The result is the return value, the
\* filter pair, the bucket index used, the key probed, whether the key was
\* inserted, and crash: flows[mid] was read outside the vector.
nf_count(found, masked, threshold, filter, garbage) ==
    LET mid == found[2]
        ip_key == KeyBuffer(ip_to_str(masked), garbage)
        none == [ret |-> SPOOF_NEGATIVE, filter |-> filter, mid |-> -1, key |-> <<>>,
                 inserted |-> FALSE, crash |-> FALSE]
    IN  IF found[1] # 0 THEN none
        ELSE IF mid < 0 \/ mid >= Len(filter[bf_active]) THEN [none EXCEPT !.crash = TRUE]
        ELSE IF bloom_contains(filter[bf_active][mid + 1].sources, ip_key)
        THEN [none EXCEPT !.mid = mid, !.key = ip_to_str(masked)]
        ELSE LET ins == [filter EXCEPT
                            ![bf_active][mid + 1].sources = bloom_insert(@, ip_key),
                            ![bf_learning][mid + 1].sources = bloom_insert(@, ip_key)]
                 f2 == [ins EXCEPT ![bf_active][mid + 1].count = @ + 1,
                                   ![bf_learning][mid + 1].count = @ + 1]
             IN  [ret |-> IF f2[bf_active][mid + 1].count > threshold
                          THEN SPOOF_POSITIVE ELSE SPOOF_NEGATIVE,
                  filter |-> f2, mid |-> mid, key |-> ip_to_str(masked),
                  inserted |-> TRUE, crash |-> FALSE]

\* garbage.sr and garbage.mid are the values the locals search_result and mid
\* hold before the loop, garbage.tail the bytes of ip_key behind the text
check_new_flows_v4(record, threshold, filter, mm, prefix_list, garbage) ==
    LET found == nf_search_v4(record, prefix_list, mm, 0, Len(prefix_list) - 1,
                              garbage.sr, garbage.mid)
        masked == SetUi32(record.src_addr, 2, ui32(record.src_addr, 2) \cap mm[24])
    IN  nf_count(found, masked, threshold, rotation(filter, record), garbage.tail)

\* garbage.word is what the local masked holds before the loop
check_new_flows_v6(record, threshold, filter, mm, prefix_list, garbage) ==
    LET found == nf_search_v6(record, prefix_list, mm, 0, Len(prefix_list) - 1,
                              garbage.sr, garbage.mid, <<garbage.word, garbage.word>>)
        masked == SetUi64(SetUi64(record.src_addr, 0, ui64(record.src_addr, 0) \cap mm[64][1]),
                          1, {})
    IN  nf_count(found, masked, threshold, rotation(filter, record), garbage.tail)

(* ------------------------ uninitialised values ------------------------- *)
\* The values a read of an uninitialised local can yield, per local: for the
\* 64-bit word of a masked address the least and the greatest word and the words
\* that make the comparison with a prefix of the lists come out equal.
MaskedGarbage(lists, lens) ==
    {{}, All64} \cup UNION {{ui64(list[i].ip, 0) :
                                i \in {j \in DOMAIN list : list[j].pref_length \in lens}} :
                            list \in lists}
GarbageStamps == {<<0, 0, 0, 0>>, <<0, 100, 0, 0>>}
GarbageTails == {0, 255}

(* ------------------------------ main ----------------------------------- *)
v4_masks == create_v4_mask_map
v6_masks == create_v6_mask_map(cfg.v6_shift)

\* ur_basic_flow_t, the fields the detector reads
Flow(src, dst, first, link, dir) ==
    [src_addr |-> src, dst_addr |-> dst, first |-> first,
     linkbitfield |-> link, dirbitfield |-> dir]

\* 1. bogon and specific prefix filter, for a value of the uninitialised
\* local of the IPv6 filter
bogon_stage(record, garbage) ==
    IF ip_is4(record.src_addr)
    THEN LET retval == v4_bogon_filter(record, cfg.bogon_list_v4, v4_masks)
         IN  IF retval = SPOOF_NEGATIVE /\ record.dirbitfield = 1
             THEN v4_bogon_filter(record, cfg.spec_list_v4, v4_masks)
             ELSE retval
    ELSE LET retval == v6_bogon_filter(record, cfg.bogon_list_v6, v6_masks, garbage)
         IN  IF retval = SPOOF_NEGATIVE /\ record.dirbitfield = 1
             THEN v6_bogon_filter(record, cfg.spec_list_v6, v6_masks, garbage)
             ELSE retval

\* the return values stage 1 can produce for the record
bogon_outcomes(record) ==
    IF ip_is4(record.src_addr) THEN {bogon_stage(record, <<{}, {}>>)}
    ELSE {bogon_stage(record, <<w, {}>>) :
            w \in MaskedGarbage({cfg.bogon_list_v6, cfg.spec_list_v6}, 65..128)}

\* the tests that end the iteration after a stage: count, send, continue;
\* the _fallthrough variants are the loop body without the send and continue
bogon_caught_fallthrough(retval) == FALSE
symetry_caught_fallthrough(retval) == FALSE
bogon_caught(retval) == retval = SPOOF_POSITIVE
symetry_caught(retval) == retval = SPOOF_POSITIVE
nflow_caught(retval) == retval = SPOOF_POSITIVE

\* 2. symetric routing filter: return value, both maps, and the record
symetry_stage(record, garbage) ==
    IF ip_is4(record.src_addr)
    THEN LET r == check_symetry_v4(record, v4_route_sym, cfg.sym_rw_time)
         IN  [ret |-> r.ret, record |-> record, sym4 |-> r.src, sym6 |-> v6_route_sym]
    ELSE LET r == check_symetry_v6(record, v6_route_sym, cfg.sym_rw_time, garbage)
         IN  [ret |-> r.ret, record |-> r.record, sym4 |-> v4_route_sym, sym6 |-> r.src]

\* the results stage 2 can produce for the record
symetry_outcomes(record) ==
    IF ip_is4(record.src_addr) THEN {symetry_stage(record, <<0, 0, 0, 0>>)}
    ELSE {symetry_stage(record, g) : g \in GarbageStamps}

\* 4. new flow count check
nflow_stage(record, garbage) ==
    IF ip_is4(record.src_addr)
    THEN check_new_flows_v4(record, cfg.nf_threshold, v4_flows, v4_masks,
                            cfg.spec_list_v4, garbage)
    ELSE check_new_flows_v6(record, cfg.nf_threshold, v6_flows, v6_masks,
                            cfg.spec_list_v6, garbage)

\* the results stage 4 can produce for the record
nflow_outcomes(record) ==
    LET is4 == ip_is4(record.src_addr)
        list == IF is4 THEN cfg.spec_list_v4 ELSE cfg.spec_list_v6
    IN  {nflow_stage(record, g) :
            g \in [sr : IF list = <<>> THEN {0, 1} ELSE {1},
                   mid : {-1},
                   word : IF is4 THEN {{}} ELSE MaskedGarbage({cfg.spec_list_v6}, 0..64),
                   tail : GarbageTails]}

NoStage == "none"

\* One pass of the body of the processing loop over a record of the right
\* size, for one outcome of each stage it runs: the verdict of each stage that
\* ran (NoStage for one that did not), the state the pass leaves, what it
\* sent, and whether it crashed.
after_bogon(record, s1) ==
    [s1 |-> s1, s2 |-> NoStage, s3 |-> NoStage,
     sym4 |-> v4_route_sym, sym6 |-> v6_route_sym, fl4 |-> v4_flows, fl6 |-> v6_flows,
     sent |-> IF bogon_caught(s1) THEN <<record>> ELSE <<>>,
     caught |-> IF bogon_caught(s1) THEN "bogons" ELSE "",
     crash |-> FALSE, mid |-> -1, key |-> <<>>, inserted |-> FALSE]

after_symetry(st, sy) ==
    [st EXCEPT !.s2 = sy.ret, !.sym4 = sy.sym4, !.sym6 = sy.sym6,
               !.sent = IF symetry_caught(sy.ret) THEN <<sy.record>> ELSE <<>>,
               !.caught = IF symetry_caught(sy.ret) THEN "syms" ELSE ""]

after_nflow(st, sy, nf) ==
    LET is4 == ip_is4(sy.record.src_addr)
        hit == ~nf.crash /\ nflow_caught(nf.ret)
    IN  [st EXCEPT !.s3 = IF nf.crash THEN NoStage ELSE nf.ret,
                   !.fl4 = IF is4 THEN nf.filter ELSE @,
                   !.fl6 = IF is4 THEN @ ELSE nf.filter,
                   !.crash = nf.crash, !.mid = nf.mid, !.key = nf.key,
                   !.inserted = nf.inserted,
                   !.sent = IF hit THEN <<sy.record>> ELSE <<>>,
                   !.caught = IF hit THEN "nflows" ELSE ""]

\* the results the pass over the record can have
filter_record(record) ==
    UNION {IF bogon_caught(s1) THEN {after_bogon(record, s1)}
           ELSE UNION {IF symetry_caught(sy.ret)
                       THEN {after_symetry(after_bogon(record, s1), sy)}
                       ELSE {after_nflow(after_symetry(after_bogon(record, s1), sy), sy, nf) :
                                nf \in nflow_outcomes(sy.record)}
                       : sy \in symetry_outcomes(record)}
           : s1 \in bogon_outcomes(record)}

(* ------------------------------ configuration -------------------------- *)
\* an IPv6 address from its eight 16-bit groups
V6G(g) == V6([j \in 1..16 |-> IF j % 2 = 1 THEN g[(j + 1) \div 2] \div 256
                                             ELSE g[j \div 2] % 256])

\* prefix lists as load_pref leaves them: split by family and sorted
BogonsV4 == <<Prefix(V4(10, 0, 0, 0), 8), Prefix(V4(172, 16, 0, 0), 12),
              Prefix(V4(192, 168, 0, 0), 16)>>
BogonsV6 == <<Prefix(V6G(<<\h64, \hff9b, 0, 0, 0, 0, 0, 0>>), 96),
              Prefix(V6G(<<\h2001, \hdb8, 0, 0, 0, 0, 0, 0>>), 32)>>
\* a bogon list in which a short prefix is followed by longer ones inside it
NestedV4 == <<Prefix(V4(10, 0, 0, 0), 8), Prefix(V4(10, 1, 0, 0), 16),
              Prefix(V4(10, 5, 0, 0), 16)>>
SpecV4 == <<Prefix(V4(147, 32, 0, 0), 16), Prefix(V4(192, 0, 2, 0), 24)>>
SpecV6 == <<Prefix(V6G(<<\h2001, \h718, 0, 0, 0, 0, 0, 0>>), 32),
            Prefix(V6G(<<\h2001, \h718, 1, 1, 0, 0, 0, 0>>), 96)>>

\* the options -s and -t as main leaves them: -s 0 selects the default; -t is
\* given, and not 0, in every run
Options(s, t) == [sym_rw_time |-> IF s = 0 THEN SYM_RW_DEFAULT ELSE s, nf_threshold |-> t]

\* the sequence in reverse order
Reversed(q) == [i \in DOMAIN q |-> q[Len(q) + 1 - i]]

\* a readable file with the prefixes of the two lists, not in sorted order
FileOf(list_v4, list_v6) == PrefixFile(TRUE, Reversed(list_v6) \o Reversed(list_v4))

\* A run: the command line (-b and -c given or not, -s, -t), the two files,
\* the input (the records the input interface can deliver and how many it
\* delivers), and the locals of main that hold what it builds before the loop,
\* as they are when main begins.
Config(spec6, shift, s, t, input, limit) ==
    [b_flag |-> TRUE, bog_file |-> FileOf(BogonsV4, BogonsV6),
     c_flag |-> TRUE, cnet_file |-> FileOf(SpecV4, spec6),
     opt_s |-> s, opt_t |-> t,
     bogon_list_v4 |-> <<>>, bogon_list_v6 |-> <<>>,
     spec_list_v4 |-> <<>>, spec_list_v6 |-> <<>>, v6_shift |-> shift,
     sym_rw_time |-> 0, nf_threshold |-> 0,
     input |-> input, limit |-> limit]

(* ------------------------------ input records -------------------------- *)
T100 == <<0, 100, 0, 0>>
T110 == <<0, 110, 0, 0>>
T200 == <<0, 200, 0, 0>>
\* second 100 and a non-zero fraction of a second
T100f == <<0, 100, 0, 7>>
Links == {{1}, {2}, {33}}

OwnV4 == V4(192, 0, 2, 5)
OwnDstV4 == V4(192, 0, 2, 10)
ExtV4 == V4(203, 0, 113, 1)
NewSrcV4 == {V4(198, 51, 100, 9), V4(198, 51, 100, 77), V4(198, 51, 101, 9),
             V4(198, 51, 102, 9)}

\* outbound flows to one /24 at several times over several links, the inbound
\* flows from it, and an outbound flow with a bogon source
SymRecordsV4 ==
    {Flow(OwnV4, ExtV4, T100, l, 0) : l \in Links}
    \cup {Flow(OwnV4, ExtV4, T100f, {1}, 0), Flow(OwnV4, ExtV4, T110, {2}, 0),
          Flow(OwnV4, ExtV4, T200, {2}, 0)}
    \cup {Flow(ExtV4, OwnDstV4, T110, l, 1) : l \in Links}
    \cup {Flow(V4(10, 1, 2, 3), ExtV4, T100, {1}, 0)}

\* inbound flows to a watched prefix from several /24, one from the operator's
\* own network, and an outbound flow
FlowRecordsV4 ==
    {Flow(a, OwnDstV4, T110, {1}, 1) : a \in NewSrcV4 \cup {OwnV4}}
    \cup {Flow(OwnV4, ExtV4, T100, {1}, 0)}

\* outbound flows whose sources fall before, between, into and behind the
\* prefixes of NestedV4
LookupRecordsV4 ==
    {Flow(a, ExtV4, T100, {1}, 0) :
        a \in {V4(9, 9, 9, 9), V4(10, 0, 7, 7), V4(10, 1, 9, 9), V4(10, 3, 3, 4),
               V4(10, 5, 0, 7), V4(11, 0, 0, 1)}}

\* a flow with a bogon source, outbound and inbound
BogonRecordsV4 ==
    {Flow(V4(10, 1, 2, 3), ExtV4, T100, {1}, d) : d \in {0, 1}}

\* the byte order of check_symetry_v6 applied to an address, used to write
\* records whose rewritten source falls into a watched prefix
Rewritten(a) == SwapHalves(ip_from_16_bytes_le(a))

OwnV6 == V6G(<<\h2001, \h718, 1, 1, 0, 0, 0, 5>>)
ExtV6 == V6G(<<\h2a00, \h1450, 0, 1, 0, 0, 0, 1>>)
NewSrcV6 == {Rewritten(V6G(<<\h2001, \h718, 1, 1, 0, 0, 0, 9>>)),
             Rewritten(V6G(<<\h2001, \h718, 1, 1, 0, 0, 0, \h77>>)),
             Rewritten(V6G(<<\h2001, \h718, 0, 2, 0, 0, 0, 9>>))}

SymRecordsV6 ==
    {Flow(OwnV6, ExtV6, t, l, 0) : t \in {T100, T200}, l \in {{1}, {2}}}
    \cup {Flow(ExtV6, OwnV6, T110, l, 1) : l \in {{1}, {2}}}

BogonRecordsV6 ==
    {Flow(V6G(<<\h2001, \hdb8, 1, 0, 0, 0, 0, 1>>), ExtV6, T100, {1}, 0),
     Flow(V6G(<<\h64, \hff9b, 0, 0, 0, 0, \h102, \h304>>), OwnV6, T100, {1}, 1)}

FlowRecordsV6 == {Flow(a, OwnV6, T110, {1}, 1) : a \in NewSrcV6}

\* runs in which -b or -c is absent or names a file that cannot be opened
StartupConfigs ==
    LET c == Config(SpecV6, "wrap", 0, 1, BogonRecordsV4, MaxRecordsV6)
    IN  {[c EXCEPT !.b_flag = FALSE, !.bog_file = NoFile],
         [c EXCEPT !.bog_file = NoFile],
         [c EXCEPT !.bog_file = NoFile, !.cnet_file = NoFile],
         [c EXCEPT !.cnet_file = NoFile],
         [c EXCEPT !.c_flag = FALSE, !.cnet_file = NoFile]}

\* the runs that are explored: a configuration and the records of its input
Configs ==
    {Config(SpecV6, "wrap", 0, 2, SymRecordsV4, MaxRecords),
     Config(SpecV6, "wrap", 0, 2, FlowRecordsV4, MaxRecords),
     Config(SpecV6, "wrap", 0, 1,
            SymRecordsV6 \cup BogonRecordsV6 \cup FlowRecordsV6
               \cup {Flow(V4(198, 51, 100, 9), OwnDstV4, T110, {1}, 1)},
            MaxRecordsV6),
     Config(<<>>, "zero", 0, 1, BogonRecordsV6 \cup FlowRecordsV4 \cup FlowRecordsV6,
            MaxRecordsV6),
     [Config(SpecV6, "wrap", 0, 2, LookupRecordsV4, MaxRecordsV6)
         EXCEPT !.bog_file = FileOf(NestedV4, BogonsV6)]}
    \cup StartupConfigs

(* ------------------------------ history -------------------------------- *)
\* the key under which the symmetric routing filter files an outbound record
SymKey(record) ==
    IF ip_is4(record.src_addr)
    THEN <<4, ip_get_v4_as_int(record.dst_addr) \cap (8..31)>>
    ELSE <<6, ui64(swap_record_v6(record).dst_addr, 0)>>

\* the key under which it looks an inbound record up
SymSrcKey(record) ==
    IF ip_is4(record.src_addr)
    THEN <<4, ip_get_v4_as_int(record.src_addr) \cap (8..31)>>
    ELSE <<6, ui64(swap_record_v6(record).src_addr, 0)>>

\* the symmetry map of a family
SymMap(fam) == IF fam = 4 THEN v4_route_sym ELSE v6_route_sym

\* hist.sym after an outbound record went through the symmetric routing
\* filter: per key the last such record's timestamp, the OR of the link masks
\* of all of them, their number, and whether each came less than the rewrite
\* window (in seconds) after the one before
HistSym(h, record) ==
    LET k == SymKey(record)
        new == [first |-> record.first, links |-> record.linkbitfield, inwin |-> TRUE,
                n |-> 1]
    IN  IF k \in DOMAIN h
        THEN [h EXCEPT ![k] =
                [first |-> record.first,
                 links |-> @.links \cup record.linkbitfield,
                 inwin |-> @.inwin /\ Seconds(record.first) >= Seconds(@.first)
                                   /\ Seconds(record.first) - Seconds(@.first) < cfg.sym_rw_time,
                 n |-> @.n + 1]]
        ELSE [x \in DOMAIN h \cup {k} |-> IF x = k THEN new ELSE h[x]]

EmptyMap == [x \in {} |-> {}]

NoRecord == Flow(V4(0, 0, 0, 0), V4(0, 0, 0, 0), U64(0), {}, 0)

(* ------------------------------ log replay ----------------------------- *)
\* The CSV file of -f: whether it can be opened, the data lines behind the
\* header line, and whether the last line of the file ends with the record
\* delimiter.
CsvFile(open, lines, terminated) == [open |-> open, lines |-> lines, terminated |-> terminated]

\* the state of the module: where main is, the argument of -c (NoOption
\* without -c), max_num_records, num_records, the file and the number of
\* data lines read, f_in.good(), the records handed to trap_ctx_send, and
\* the value returned
NoOption == -1
Replay(c, file) ==
    [pc |-> "start", c |-> c, max_num_records |-> 0, num_records |-> 0,
     file |-> file, pos |-> 0, good |-> FALSE, sent |-> <<>>, ret |-> NotExited]

\* the module is not running
ReplayIdle == [Replay(NoOption, CsvFile(FALSE, <<>>, FALSE)) EXCEPT !.pc = "idle"]

\* the command lines and files explored: -c absent or with 0..MaxCount, a
\* file of up to MaxLines data lines
ReplayStarts ==
    LET texts == {"1.2.3.4,80", "5.6.7.8,443"}
        files == {CsvFile(o, l, t) : o \in BOOLEAN, t \in BOOLEAN,
                     l \in UNION {[1..n -> texts] : n \in 0..MaxLines}}
    IN  {Replay(c, f) : c \in {NoOption} \cup (0..MaxCount), f \in files}

\* std::getline(f_in, line, record_delim) for the line behind the first n
\* lines of the file (the header is line 0): the stream stays good when the
\* delimiter was found
getline_good(file, n) == n < Len(file.lines) \/ (n = Len(file.lines) /\ file.terminated)

\* main up to the main loop: getopt, the file is opened and the header read.
\* trap_parse_params succeeds and the header names a template.
ReplayStart ==
    /\ replay.pc = "start"
    /\ replay' =
         IF replay.c = 0
         THEN [replay EXCEPT !.pc = "exit", !.ret = 1]
         ELSE LET max == IF replay.c = NoOption THEN 0 ELSE replay.c
              IN  IF ~replay.file.open
                  THEN [replay EXCEPT !.pc = "exit", !.max_num_records = max, !.ret = 0]
                  ELSE [replay EXCEPT !.pc = "loop", !.max_num_records = max,
                                      !.good = getline_good(replay.file, 0)]
    /\ UNCHANGED <<spoofing_vars, mux>>

\* one iteration of the main loop that does not break: a line is read, its
\* fields are stored and the record is sent
ReplayLine ==
    /\ replay.pc = "loop"
    /\ replay.good
    /\ replay.pos < Len(replay.file.lines)
    /\ getline_good(replay.file, replay.pos + 1)
    /\ replay' = [replay EXCEPT !.pos = @ + 1,
                                !.sent = Append(@, replay.file.lines[replay.pos + 1])]
    /\ UNCHANGED <<spoofing_vars, mux>>

\* the main loop ends, on its condition or on the break after a getline that
\* met the end of the file, and main returns ret after the cleanup
ReplayEnd ==
    /\ replay.pc = "loop"
    /\ \/ ~replay.good
       \/ replay.good /\ ~getline_good(replay.file, replay.pos + 1)
    /\ replay' = [replay EXCEPT !.pc = "exit", !.good = FALSE, !.ret = 0,
                                !.pos = IF replay.good /\ @ < Len(replay.file.lines)
                                        THEN @ + 1 ELSE @]
    /\ UNCHANGED <<spoofing_vars, mux>>

(* ------------------------------ multiplexer ---------------------------- *)
\* further results of the trap calls: the format of the input has changed
\* (receive), the output with TRAP_NO_WAIT cannot take the message (send)
TRAP_E_FORMAT_CHANGED == "TRAP_E_FORMAT_CHANGED"
TRAP_E_TIMEOUT == "TRAP_E_TIMEOUT"

\* no thread is in a critical section
NoThread == -1

\* The module started with -n n: main, the globals exit_value and ret, the
\* output interface, the lock of the unnamed omp critical construct, the
\* number of receives so far, and per capture thread its position and its
\* locals: the result of its own last receive, what it received (the number
\* of the receive), data_fmt, and the header in its buffer.
Mux(n) ==
    [pc |-> "start", n_inputs |-> n, exit_value |-> 0, ret |-> TRAP_E_OK,
     out |-> <<>>, lock |-> NoThread, received |-> 0,
     t |-> [i \in {} |-> 0]]

\* the module is not running
MuxIdle == [Mux(0) EXCEPT !.pc = "idle"]

\* meta_info_t with its payload: the number of the receive that gave the
\* data, or the format text of a hello message
Message(messageID, interfaceID, data_fmt, payload) ==
    [messageID |-> messageID, interfaceID |-> interfaceID, data_fmt |-> data_fmt,
     payload |-> payload]

\* a critical construct that excludes nobody
critical_open == TRUE

\* #pragma omp critical: a thread enters when no thread is in a critical
\* section of that (unnamed) construct
critical_free == mux.lock = NoThread

\* main: the number of inputs is checked, the interfaces are initialised
\* (these calls succeed) and the parallel region starts a capture thread per
\* input, each before its loop.
MuxStart ==
    /\ mux.pc = "start"
    /\ mux' =
         IF mux.n_inputs < 1 \/ mux.n_inputs > 32
         THEN [mux EXCEPT !.pc = "exit", !.exit_value = 2]
         ELSE [mux EXCEPT !.pc = "parallel",
                          !.t = [i \in 0..(mux.n_inputs - 1) |->
                                   [pc |-> "recv", got |-> TRAP_E_OK, payload |-> 0,
                                    data_fmt |-> "unknown",
                                    meta_data |-> Message(0, 0, "unknown", 0)]]]
    /\ UNCHANGED <<spoofing_vars, replay>>

\* while (!stop) and trap_ctx_recv: the result goes to the global ret
MuxRecv ==
    /\ mux.received < MaxReceives
    /\ \E i \in DOMAIN mux.t :
         \E r \in {TRAP_E_OK, TRAP_E_FORMAT_CHANGED, TRAP_E_TERMINATED} :
            /\ mux.t[i].pc = "recv"
            /\ mux' = [mux EXCEPT !.ret = r, !.received = @ + 1,
                                  !.t[i].pc = "test", !.t[i].got = r,
                                  !.t[i].payload = IF r = TRAP_E_TERMINATED
                                                   THEN @ ELSE mux.received + 1]
    /\ UNCHANGED <<spoofing_vars, replay>>

\* the two tests of the global ret: data or a changed format, else an error
\* message is prepared; a changed format, else the data are forwarded
MuxTest ==
    /\ \E i \in DOMAIN mux.t :
         \/ /\ mux.t[i].pc = "test"
            /\ mux' = [mux EXCEPT !.t[i].pc =
                          IF mux.ret \in {TRAP_E_OK, TRAP_E_FORMAT_CHANGED}
                          THEN "test_format" ELSE "error"]
         \/ /\ mux.t[i].pc = "test_format"
            /\ mux' = [mux EXCEPT !.t[i].pc =
                          IF mux.ret = TRAP_E_FORMAT_CHANGED THEN "hello" ELSE "data"]
    /\ UNCHANGED <<spoofing_vars, replay>>

\* the changed format: trap_ctx_get_data_fmt fails and the thread returns,
\* or the hello message is filled in and the thread enters the critical
\* section of its send
MuxHello ==
    /\ \E i \in DOMAIN mux.t :
         /\ mux.t[i].pc = "hello"
         /\ \/ mux' = [mux EXCEPT !.t[i].pc = "returned"]
            \/ /\ critical_free
               /\ \E fmt \in {"fmt_a", "fmt_b"} :
                    mux' = [mux EXCEPT !.lock = i, !.t[i].pc = "hello_send",
                                       !.t[i].data_fmt = fmt,
                                       !.t[i].meta_data = Message(2, i, fmt, fmt)]
    /\ UNCHANGED <<spoofing_vars, replay>>

\* the header of the data message (messageID 1) or of the error message
\* (messageID -1, data_fmt as it was) is filled in and the thread enters the
\* critical section of the send
MuxForward ==
    /\ critical_free
    /\ \E i \in DOMAIN mux.t :
         /\ mux.t[i].pc \in {"data", "error"}
         /\ mux' = [mux EXCEPT
                      !.lock = i, !.t[i].pc = "data_send",
                      !.t[i].meta_data =
                          IF mux.t[i].pc = "data"
                          THEN Message(1, i, mux.t[i].data_fmt, mux.t[i].payload)
                          ELSE Message(-1, i, @.data_fmt, @.payload)]
    /\ UNCHANGED <<spoofing_vars, replay>>

\* inside a critical section: trap_ctx_send hands the buffer to the output
\* or fails, its result goes to the global ret, and the section is left
MuxSend ==
    /\ \E i \in DOMAIN mux.t :
         \E r \in {TRAP_E_OK, TRAP_E_TIMEOUT} :
            /\ mux.t[i].pc \in {"hello_send", "data_send"}
            /\ mux' = [mux EXCEPT
                         !.ret = r,
                         !.out = IF r = TRAP_E_OK THEN Append(@, mux.t[i].meta_data) ELSE @,
                         !.lock = IF @ = i THEN NoThread ELSE @,
                         !.t[i].pc = IF mux.t[i].pc = "hello_send" THEN "data" ELSE "recv"]
    /\ UNCHANGED <<spoofing_vars, replay>>

(* ------------------------------ behaviour ------------------------------ *)
\* the spoofing filter at position start with one of the configurations
InitOf(start, configs) ==
    /\ pc = start
    /\ exit_code = NotExited
    /\ recv = NoData
    /\ stop = 0
    /\ bf_active = 0
    /\ bf_learning = 1
    /\ cfg \in configs
    /\ v4_route_sym = EmptyMap
    /\ v6_route_sym = EmptyMap
    /\ v4_flows = create_nflow_filters(0)
    /\ v6_flows = create_nflow_filters(0)
    /\ cnt = [v4 |-> 0, v6 |-> 0, spoof_count |-> 0, bogons |-> 0, syms |-> 0, nflows |-> 0]
    /\ out = <<>>
    /\ last = [record |-> NoRecord, s1 |-> NoStage, s2 |-> NoStage, s3 |-> NoStage,
               sent |-> <<>>, mid |-> -1, key |-> <<>>, inserted |-> FALSE,
               seen |-> FALSE, distinct |-> 0]
    /\ hist = [sym |-> EmptyMap, seen |-> {}, flagged |-> <<>>]

Init == InitOf("start", Configs) /\ replay = ReplayIdle /\ mux = MuxIdle

\* main from the getopt loop to the creation of the Bloom filters;
\* trap_parse_params and trap_init succeed.  It returns, or enters the loop.
Setup ==
    /\ pc = "start"
    /\ LET bogon == load_pref(cfg.bog_file)
           spec == load_pref(cfg.cnet_file)
           retval == spec.ret
           opts == Options(cfg.opt_s, cfg.opt_t)
       IN  IF ~cfg.b_flag
           THEN /\ pc' = "exit"
                /\ exit_code' = EXIT_FAILURE
                /\ UNCHANGED <<cfg, v4_flows, v6_flows>>
           ELSE /\ cfg' = [cfg EXCEPT !.sym_rw_time = opts.sym_rw_time,
                                      !.nf_threshold = opts.nf_threshold,
                                      !.bogon_list_v4 = bogon.v4,
                                      !.bogon_list_v6 = bogon.v6,
                                      !.spec_list_v4 = spec.v4,
                                      !.spec_list_v6 = spec.v6]
                /\ IF retval = BOGON_FILE_ERROR
                   THEN /\ pc' = "exit"
                        /\ exit_code' = retval
                        /\ UNCHANGED <<v4_flows, v6_flows>>
                   ELSE /\ pc' = "loop"
                        /\ exit_code' = exit_code
                        /\ v4_flows' = create_nflow_filters(Len(spec.v4))
                        /\ v6_flows' = create_nflow_filters(Len(spec.v6))
    /\ UNCHANGED <<replay, mux>>
    /\ UNCHANGED <<recv, stop, bf_active, bf_learning, v4_route_sym, v6_route_sym,
                   cnt, out, last, hist>>

\* a loop that does not read the stop flag
loop_condition_ignores_stop == TRUE

\* while (!stop)
loop_condition == stop = 0

\* One iteration of the processing loop: trap_get_data delivers a record of
\* the expected size, the filters run, a flagged record is sent.
\* the counters as the third test would leave them without its increment of
\* spoof_count
count_record_uncounted(counters, is4, caught) ==
    [counters EXCEPT
        !.v4 = IF is4 THEN @ + 1 ELSE @,
        !.v6 = IF is4 THEN @ ELSE @ + 1,
        !.spoof_count = IF caught \in {"bogons", "syms"} THEN @ + 1 ELSE @,
        !.bogons = IF caught = "bogons" THEN @ + 1 ELSE @,
        !.syms = IF caught = "syms" THEN @ + 1 ELSE @,
        !.nflows = IF caught = "nflows" THEN @ + 1 ELSE @]

\* the counters of main (DEBUG is defined) after the pass over a record:
\* ++v4 or ++v6 by the family, and in the block of the test that caught the
\* record ++spoof_count and the counter of its stage
count_record(counters, is4, caught) ==
    [counters EXCEPT
        !.v4 = IF is4 THEN @ + 1 ELSE @,
        !.v6 = IF is4 THEN @ ELSE @ + 1,
        !.spoof_count = IF caught # "" THEN @ + 1 ELSE @,
        !.bogons = IF caught = "bogons" THEN @ + 1 ELSE @,
        !.syms = IF caught = "syms" THEN @ + 1 ELSE @,
        !.nflows = IF caught = "nflows" THEN @ + 1 ELSE @]

Process ==
    /\ pc = "loop"
    /\ loop_condition
    /\ cnt.v4 + cnt.v6 < cfg.limit
    /\ \E record \in cfg.input : \E r \in filter_record(record) :
        LET is4 == ip_is4(record.src_addr)
            fam == IF is4 THEN 4 ELSE 6
            bucket == <<fam, r.mid, r.key>>
            sources == {x \in hist.seen \cup {bucket} : x[1] = fam /\ x[2] = r.mid}
        IN  /\ cnt' = count_record(cnt, is4, r.caught)
            /\ v4_route_sym' = r.sym4
            /\ v6_route_sym' = r.sym6
            /\ v4_flows' = r.fl4
            /\ v6_flows' = r.fl6
            /\ out' = out \o [i \in DOMAIN r.sent |->
                                [seq |-> cnt.v4 + cnt.v6 + 1, record |-> r.sent[i]]]
            /\ pc' = IF r.crash THEN "crashed" ELSE pc
            /\ last' = [record |-> record, s1 |-> r.s1, s2 |-> r.s2, s3 |-> r.s3,
                        sent |-> r.sent, mid |-> r.mid, key |-> r.key,
                        inserted |-> r.inserted,
                        seen |-> r.mid >= 0 /\ bucket \in hist.seen,
                        distinct |-> IF r.mid >= 0 THEN Cardinality(sources) ELSE 0]
            /\ hist' = [sym |-> IF r.s2 # NoStage /\ record.dirbitfield = 0
                                THEN HistSym(hist.sym, record) ELSE hist.sym,
                        seen |-> IF r.mid >= 0 THEN hist.seen \cup {bucket} ELSE hist.seen,
                        flagged |-> Append(hist.flagged,
                                     SPOOF_POSITIVE \in {r.s1, r.s2, r.s3})]
    /\ recv' = Received(TRAP_E_OK, sizeof_ur_basic_flow_t)
    /\ UNCHANGED <<replay, mux>>
    /\ UNCHANGED <<exit_code, stop, bf_active, bf_learning, cfg>>

\* signal_handler on SIGTERM or SIGINT.  The handler writes stop only, and
\* an iteration reads stop only in the condition of the loop, so a signal
\* that arrives during an iteration leaves the state of one that arrives at
\* its end.
Signal ==
    /\ pc = "loop"
    /\ stop' = 1
    /\ UNCHANGED <<replay, mux>>
    /\ UNCHANGED <<pc, exit_code, recv, bf_active, bf_learning, cfg, v4_route_sym,
                   v6_route_sym, v4_flows, v6_flows, cnt, out, last, hist>>

\* what trap_get_data can give when the loop ends in it: the signal handler
\* has called trap_terminate, or the sink is terminated, or the call fails,
\* or the data are not of the size of a record
leave_outcomes ==
    IF stop = 1 THEN {Received(TRAP_E_TERMINATED, 0)}
    ELSE {Received(TRAP_E_TERMINATED, 0), Received(TRAP_E_IO_ERROR, 0),
          Received(TRAP_E_OK, 1), Received(TRAP_E_OK, sizeof_ur_basic_flow_t + 1)}

\* the iteration breaks out of the loop on what trap_get_data gave
breaks(r) ==
    \/ r.retval # TRAP_E_OK
    \/ r.data_size # sizeof_ur_basic_flow_t

\* The loop ends: its condition finds stop set and trap_get_data is not
\* called, or an iteration breaks on the result of trap_get_data.
LeaveLoop ==
    /\ pc = "loop"
    /\ \/ ~loop_condition /\ recv' = recv
       \/ \E r \in leave_outcomes : breaks(r) /\ recv' = r
    /\ pc' = "cleanup"
    /\ UNCHANGED <<replay, mux>>
    /\ UNCHANGED <<exit_code, stop, bf_active, bf_learning, cfg, v4_route_sym, v6_route_sym,
                   v4_flows, v6_flows, cnt, out, last, hist>>

\* destroy_filters: every Bloom filter of both sides is deleted and the
\* vector of the active side is cleared (twice); the vector of the learning
\* side keeps its elements, whose filters are gone
destroy_filters(filters) ==
    [filters EXCEPT ![bf_active] = <<>>,
                    ![bf_learning] = [i \in DOMAIN @ |-> [@[i] EXCEPT !.sources = "deleted"]]]

\* the Bloom filters destroy_filters deletes, as <<side, index>> in the order
\* of the delete expressions: one of each side for every index of the active
\* side
destroy_deletes(filters) ==
    LET n == Len(filters[bf_active])
    IN  [k \in 1..(2 * n) |-> <<IF k % 2 = 1 THEN bf_active ELSE bf_learning, (k + 1) \div 2>>]

\* the sides whose vector destroy_filters clears, in the order of the calls
destroy_clears == <<bf_active, bf_active>>

Cleanup ==
    /\ pc = "cleanup"
    /\ v4_flows' = destroy_filters(v4_flows)
    /\ v6_flows' = destroy_filters(v6_flows)
    /\ pc' = "exit"
    /\ exit_code' = EXIT_SUCCESS
    /\ UNCHANGED <<replay, mux>>
    /\ UNCHANGED <<recv, stop, bf_active, bf_learning, cfg, v4_route_sym, v6_route_sym,
                   cnt, out, last, hist>>

Next == Setup \/ Process \/ Signal \/ LeaveLoop \/ Cleanup

Spec == Init /\ [][Next]_vars

\* The rotation step of the commented block, applied between iterations to
\* the filter pair of a family: swap_filters, then clear_filters on the side
\* that is now the learning one.
Rotate ==
    /\ pc = "loop"
    /\ LET sides == swap_filters([bf_active |-> bf_active, bf_learning |-> bf_learning])
       IN  /\ bf_active' = sides.bf_active
           /\ bf_learning' = sides.bf_learning
           /\ \/ /\ v4_flows' = [v4_flows EXCEPT ![sides.bf_learning] = clear_filters(@)]
                 /\ UNCHANGED v6_flows
              \/ /\ v6_flows' = [v6_flows EXCEPT ![sides.bf_learning] = clear_filters(@)]
                 /\ UNCHANGED v4_flows
    /\ UNCHANGED <<pc, exit_code, recv, stop, cfg, v4_route_sym, v6_route_sym, cnt, out,
                   last, hist, replay, mux>>

\* the spoofing filter with the rotation step, on runs that count new flows
RotationNext == Setup \/ Process \/ Rotate

RotationInit ==
    /\ InitOf("start", {Config(SpecV6, "wrap", 0, 1, FlowRecordsV4 \cup FlowRecordsV6,
                               MaxRecordsV6)})
    /\ replay = ReplayIdle
    /\ mux = MuxIdle

RotationSpec == RotationInit /\ [][RotationNext]_vars

\* the log replay module alone
ReplayInit ==
    /\ InitOf("idle", {Config(<<>>, "wrap", 0, 1, {}, 0)})
    /\ replay \in ReplayStarts
    /\ mux = MuxIdle

ReplayNext == ReplayStart \/ ReplayLine \/ ReplayEnd

ReplaySpec == ReplayInit /\ [][ReplayNext]_vars

\* the multiplexer alone
MuxInit ==
    /\ InitOf("idle", {Config(<<>>, "wrap", 0, 1, {}, 0)})
    /\ replay = ReplayIdle
    /\ mux \in {Mux(n) : n \in (0..MaxInputs) \cup {33}}

MuxNext == MuxStart \/ MuxRecv \/ MuxTest \/ MuxHello \/ MuxForward \/ MuxSend

MuxSpec == MuxInit /\ [][MuxNext]_vars

\* main is a running thread: once the handler has set stop and called
\* trap_terminate, the condition of the loop is evaluated or the pending
\* trap_get_data returns, and the loop ends.
\* The runs of FairSpec are the shorter ones: the flag and the loop do
\* not depend on what the records are.
FairInit ==
    /\ InitOf("start", {Config(SpecV6, "wrap", 0, 2, SymRecordsV4, MaxRecordsV6),
                        Config(SpecV6, "wrap", 0, 1, SymRecordsV6, MaxRecordsV6)})
    /\ replay = ReplayIdle
    /\ mux = MuxIdle

FairSpec == FairInit /\ [][Next]_vars /\ WF_vars(stop = 1 /\ LeaveLoop)

(* ------------------------------ properties ----------------------------- *)
\* the step is an iteration of the processing loop
Arrived == cnt'.v4 + cnt'.v6 = cnt.v4 + cnt.v6 + 1

\* the last iteration ran the symmetric routing filter on an outbound record
LastOutbound == last.s2 # NoStage /\ last.record.dirbitfield = 0

\* C1: when stage 1 (the bogon set, or the specific-networks set on an inbound
\* record) returns POSITIVE for a record, the iteration leaves both symmetry
\* maps and all new-flow buckets of both sides as they were.
C1_BogonShortCircuit ==
    [][(Arrived /\ last'.s1 = SPOOF_POSITIVE)
          => UNCHANGED <<v4_route_sym, v6_route_sym, v4_flows, v6_flows>>]_vars

\* an outbound record was caught by stage 1 while the symmetry map had entries
C1_Witness ==
    /\ last.s1 = SPOOF_POSITIVE
    /\ last.record.dirbitfield = 0
    /\ v4_route_sym # EmptyMap

\* the arrival numbers of the records of the run that a stage flagged
IsFlagged(i) == hist.flagged[i]
FlaggedArrivals == SelectSeq([i \in DOMAIN hist.flagged |-> i], IsFlagged)

\* C2: the records sent are, in order of arrival and once each, the records
\* for which one of the three stages returned POSITIVE; a record for which all
\* stages returned NEGATIVE is not sent.
C2_EmitIffFlagged ==
    /\ Len(hist.flagged) = cnt.v4 + cnt.v6
    /\ [i \in DOMAIN out |-> out[i].seq] = FlaggedArrivals

\* a run with a record caught by stage 1, one caught by stage 2 and one that no
\* stage flagged
C2_Witness ==
    /\ cnt.bogons >= 1
    /\ cnt.syms >= 1
    /\ \E i \in DOMAIN hist.flagged : ~hist.flagged[i]
    /\ Len(out) = 2

\* C3: after the outbound IPv4 records for one /24 destination, each less than
\* the rewrite window (in seconds) after the one before, the entry of the key
\* has the OR of their link masks.
C3_SymmetryLearning ==
    \A k \in DOMAIN hist.sym :
        (k[1] = 4 /\ hist.sym[k].inwin)
            => /\ k[2] \in DOMAIN v4_route_sym
               /\ v4_route_sym[k[2]].link = hist.sym[k].links

\* C4: an outbound record for a key that is in the map with a last_seen the
\* rewrite window or more (in seconds) before the record's timestamp leaves the
\* entry {link_mask = the record's links, last_seen = the record's timestamp}.
C4_SymmetryRewrite ==
    [][(Arrived /\ last'.s2 # NoStage /\ last'.record.dirbitfield = 0)
          => LET k == SymKey(last'.record)
                 old == SymMap(k[1])
                 new == IF k[1] = 4 THEN v4_route_sym' ELSE v6_route_sym'
             IN  (/\ k[2] \in DOMAIN old
                  /\ Seconds(last'.record.first)
                        >= Seconds(old[k[2]].timestamp) + cfg.sym_rw_time)
                    => new[k[2]] = SymSrc(last'.record.linkbitfield, last'.record.first)]_vars

\* C5: in both families the last_seen of every entry is the timestamp of the
\* most recent outbound record the symmetric routing filter processed for the
\* key.
C5_LastSeenIsLatest ==
    \A k \in DOMAIN hist.sym :
        /\ k[2] \in DOMAIN SymMap(k[1])
        /\ SymMap(k[1])[k[2]].timestamp = hist.sym[k].first

\* C6: for an inbound record the symmetric routing filter returns POSITIVE
\* exactly when the key of the source is in the map and the AND of the stored
\* link mask with the record's link mask, over all 64 bits, is zero.
C6_InboundVerdict ==
    (last.s2 # NoStage /\ last.record.dirbitfield # 0)
        => LET k == SymSrcKey(last.record)
               m == SymMap(k[1])
           IN  (last.s2 = SPOOF_POSITIVE)
                  <=> (k[2] \in DOMAIN m /\ m[k[2]].link \cap last.record.linkbitfield = {})

\* C7: the symmetric routing filter returns NEGATIVE for every outbound record.
C7_OutboundNeverFlagged == LastOutbound => last.s2 = SPOOF_NEGATIVE

\* an outbound record met an entry of its key whose link mask has no link in
\* common with the record's
C7_Witness ==
    /\ LastOutbound
    /\ LET k == SymKey(last.record)
       IN  /\ hist.sym[k].n >= 2
           /\ SymMap(k[1])[k[2]].link \cap last.record.linkbitfield = {}

\* C8: a record that reaches the new-flow filter with the watched prefix and
\* the aggregated source of an earlier one changes no count and gets NEGATIVE.
C8_NewFlowRoundTrip ==
    [][(Arrived /\ last'.seen)
          => (last'.s3 = SPOOF_NEGATIVE /\ UNCHANGED <<v4_flows, v6_flows>>)]_vars

\* C9: the record that brings the k-th distinct aggregated source of a watched
\* prefix, and that the Bloom filter does not take for a known one, is flagged
\* by the new-flow filter exactly when k exceeds the threshold.
C9_NewFlowThreshold ==
    (last.mid >= 0 /\ ~last.seen /\ last.inserted)
        => ((last.s3 = SPOOF_POSITIVE) <=> (last.distinct > cfg.nf_threshold))

\* C10: a record is sent with the bytes it arrived with.
C10_SentUnchanged == \A i \in DOMAIN last.sent : last.sent[i] = last.record

\* the first len bits of an address lane, in network order: bit n of the
\* address is bit 7 - n % 8 of byte n \div 8
NetMask(len) == {8 * (n \div 8) + 7 - (n % 8) : n \in 0..(len - 1)}

\* the IPv4 prefix contains the address: A & mask[len] = addr
ContainsV4(pref, a) == ui32(a, 2) \cap NetMask(pref.pref_length) = ui32(pref.ip, 2)

\* the indices of the prefixes of the list that contain the address
MatchesV4(prefix_list, a) == {i \in DOMAIN prefix_list : ContainsV4(prefix_list[i], a)}

\* C11: for an IPv4 source that at most one prefix of the sorted bogon list
\* contains, the binary search of the bogon filter reports a match exactly
\* when a linear scan finds a prefix that contains it.
C11_PrefixLookupV4 ==
    (/\ last.s1 # NoStage
     /\ ip_is4(last.record.src_addr)
     /\ last.record.dirbitfield = 0
     /\ Cardinality(MatchesV4(cfg.bogon_list_v4, last.record.src_addr)) <= 1)
        => ((last.s1 = SPOOF_POSITIVE)
               <=> MatchesV4(cfg.bogon_list_v4, last.record.src_addr) # {})

RECURSIVE RefSearchV6(_, _, _, _)
\* the binary search of the IPv6 filters with the comparison of the claim at
\* each probe: all 128 bits of the address ANDed with the mask of the length
\* of the probed prefix against the address of the prefix
RefSearchV6(a, prefix_list, begin, end) ==
    IF begin > end THEN SPOOF_NEGATIVE
    ELSE LET mid == (begin + end) \div 2
             pref == prefix_list[mid + 1]
             cmp == memcmp(ui8(pref.ip), ui8(a) \cap NetMask(pref.pref_length), 16)
         IN  IF cmp < 0 THEN RefSearchV6(a, prefix_list, mid + 1, end)
             ELSE IF cmp = 0 THEN SPOOF_POSITIVE
             ELSE RefSearchV6(a, prefix_list, begin, mid - 1)

\* stage 1 for an IPv6 record with that search
RefBogonV6(record) ==
    LET retval == RefSearchV6(record.src_addr, cfg.bogon_list_v6, 0,
                              Len(cfg.bogon_list_v6) - 1)
    IN  IF retval = SPOOF_NEGATIVE /\ record.dirbitfield = 1
        THEN RefSearchV6(record.src_addr, cfg.spec_list_v6, 0, Len(cfg.spec_list_v6) - 1)
        ELSE retval

\* C12: for an IPv6 record the verdict of stage 1 is the one of the search
\* that at each probe compares all 128 bits of the source ANDed with
\* mask[len] with the address of the prefix, for prefixes of every length; it
\* is a function of the record and the prefix sets.
C12_BogonParityV6 ==
    (last.s1 # NoStage /\ ~ip_is4(last.record.src_addr))
        => last.s1 = RefBogonV6(last.record)

\* the IPv6 prefixes of the list (indices from 1) that contain the address:
\* all 128 bits of the address ANDed with mask[len] are the prefix's
MatchesV6(prefix_list, a) ==
    {i \in DOMAIN prefix_list :
        ui8(a) \cap NetMask(prefix_list[i].pref_length) = ui8(prefix_list[i].ip)}

\* the address the new-flow filter looks up for the record of the last
\* iteration: the destination for IPv4, for IPv6 the source as the filter
\* receives it
LookupAddr ==
    IF ip_is4(last.record.src_addr) THEN last.record.dst_addr
    ELSE swap_record_v6(last.record).src_addr

\* the watched prefixes (indices from 1) that contain the lookup address:
\* for IPv4 the 32 bits of the lane, for IPv6 all 128 bits, which for a
\* length of at most 64 are the high 64 bits masked and low 64 bits of zero
WatchedMatches ==
    IF ip_is4(last.record.src_addr) THEN MatchesV4(cfg.spec_list_v4, LookupAddr)
    ELSE MatchesV6(cfg.spec_list_v6, LookupAddr)

\* C13: the new-flow filter counts a record against the watched prefix i
\* exactly when the lookup address ANDed with mask[P[i].len] is P[i].addr: a
\* bucket it uses is one of a prefix that contains the address, and when one
\* prefix contains the address its bucket is used.
C13_NewFlowPrefixSelection ==
    (last.s3 # NoStage)
        => /\ last.mid >= 0 => (last.mid + 1) \in WatchedMatches
           /\ Cardinality(WatchedMatches) = 1 => (last.mid + 1) \in WatchedMatches

\* C14: a record that reaches the new-flow filter and that no watched prefix
\* contains, the empty watched set included, gets NEGATIVE from it and leaves
\* every bucket as it was.
C14_NewFlowNoMatch ==
    [][(Arrived /\ last'.s2 = SPOOF_NEGATIVE /\ WatchedMatches' = {})
          => (last'.s3 = SPOOF_NEGATIVE /\ UNCHANGED <<v4_flows, v6_flows>>)]_vars

\* C15: when the record of an iteration is the record of the iteration
\* before it, stage 1 gives it the verdict it gave before; stage 1 leaves the
\* prefix sets and the mask tables as they were, and the record it flags is
\* sent as it arrived.
C15_BogonIdempotent ==
    [][(Arrived /\ last.s1 # NoStage /\ last'.record = last.record)
          => /\ last'.s1 = last.s1
             /\ cfg' = cfg
             /\ last'.s1 = SPOOF_POSITIVE => last'.sent = <<last'.record>>]_vars

\* the source of the record is in no prefix of the bogon set of its family
\* and in a prefix of the specific-networks set
OwnSource(record) ==
    IF ip_is4(record.src_addr)
    THEN /\ MatchesV4(cfg.bogon_list_v4, record.src_addr) = {}
         /\ MatchesV4(cfg.spec_list_v4, record.src_addr) # {}
    ELSE /\ MatchesV6(cfg.bogon_list_v6, record.src_addr) = {}
         /\ MatchesV6(cfg.spec_list_v6, record.src_addr) # {}

\* C16: a record whose source is outside the bogon set and inside the
\* specific-networks set gets POSITIVE from stage 1 exactly when it is
\* inbound; outbound it gets NEGATIVE.
C16_SpecificOnlyInbound ==
    (last.s1 # NoStage /\ OwnSource(last.record))
        => ((last.s1 = SPOOF_POSITIVE) <=> (last.record.dirbitfield = 1))

\* C17: when the symmetric routing filter returns POSITIVE for a record, the
\* new-flow filter does not run for it and no bucket of either family and
\* either side changes.
C17_SymmetryShortCircuit ==
    [][(Arrived /\ last'.s2 = SPOOF_POSITIVE)
          => (last'.s3 = NoStage /\ UNCHANGED <<v4_flows, v6_flows>>)]_vars

\* a record was caught by the symmetric routing filter in a run in which the
\* new-flow filter has counted a source
C17_Witness ==
    /\ last.s2 = SPOOF_POSITIVE
    /\ \E i \in DOMAIN v4_flows[bf_active] : v4_flows[bf_active][i].count >= 1

\* C18: every mask of the tables main has built contains the mask of the
\* length before it: for L in 1..32 mask_v4[L] & mask_v4[L-1] = mask_v4[L-1],
\* and for L in 1..128 the same for both 64-bit words of the IPv6 table.
C18_MaskMonotone ==
    /\ \A L \in 1..32 : v4_masks[L] \cap v4_masks[L - 1] = v4_masks[L - 1]
    /\ \A L \in 1..128 : \A w \in 1..2 :
          v6_masks[L][w] \cap v6_masks[L - 1][w] = v6_masks[L - 1][w]

\* C19: when -b names a file that cannot be opened, main does not enter the
\* loop, processes no record and returns a nonzero code, whether or not the
\* file of -c can be opened.
C19_BogonFileFatal ==
    (cfg.b_flag /\ ~cfg.bog_file.open)
        => /\ pc \in {"start", "exit"}
           /\ pc = "exit" => exit_code # EXIT_SUCCESS
           /\ cnt.v4 + cnt.v6 = 0

\* C20: started with a bogon file that can be opened and without -c, main
\* enters the loop with empty specific-networks lists.
C20_OnlyBogonMandatory ==
    [][(pc = "start" /\ cfg.b_flag /\ cfg.bog_file.open /\ ~cfg.c_flag)
          => /\ pc' = "loop"
             /\ cfg'.spec_list_v4 = <<>>
             /\ cfg'.spec_list_v6 = <<>>]_vars

\* what trap_get_data gave is a failure other than termination, or data of a
\* size that is not the size of a record and is greater than 1
Fatal(r) ==
    \/ r.retval \notin {TRAP_E_OK, TRAP_E_TERMINATED, NoData.retval}
    \/ r.retval = TRAP_E_OK /\ r.data_size # sizeof_ur_basic_flow_t /\ r.data_size > 1

\* C21: the iteration that ends the loop processes no record, and main then
\* returns a nonzero code exactly when the loop ended on a receive error
\* other than termination or on data of a wrong size greater than 1; after
\* the stop flag, a terminated sink or a size of at most 1 it returns 0.
C21_ExitCodeOfLoopEnd ==
    [][/\ (pc = "loop" /\ pc' = "cleanup")
            => UNCHANGED <<cnt, out, v4_route_sym, v6_route_sym, v4_flows, v6_flows>>
       /\ (pc = "cleanup" /\ pc' = "exit")
            => ((exit_code' # EXIT_SUCCESS) <=> Fatal(recv))]_vars
Occurrences(q, x) == Cardinality({k \in DOMAIN q : q[k] = x})

\* the shutdown of a filter pair releases every Bloom filter of both sides
\* once and clears each side once
ReleasedOnce(filters) ==
    /\ \A side \in {0, 1} : \A i \in DOMAIN filters[side] :
          Occurrences(destroy_deletes(filters), <<side, i>>) = 1
    /\ \A side \in {0, 1} : Occurrences(destroy_clears, side) = 1

\* C23: at shutdown, for the filter pair of each family, every Bloom filter is
\* released exactly once and each of the two sides is cleared exactly once,
\* so that no side is left with elements.
C23_DestroyOnceEach ==
    /\ pc = "cleanup" => ReleasedOnce(v4_flows) /\ ReleasedOnce(v6_flows)
    /\ (pc = "exit" /\ exit_code = EXIT_SUCCESS)
          => \A side \in {0, 1} : v4_flows[side] = <<>> /\ v6_flows[side] = <<>>
\* every bucket of the pair new has the count of its bucket in old or more,
\* and the members of its Bloom filter
BucketsKept(old, new) ==
    \A side \in {0, 1} :
        /\ DOMAIN new[side] = DOMAIN old[side]
        /\ \A i \in DOMAIN old[side] :
              /\ new[side][i].count >= old[side][i].count
              /\ old[side][i].sources \subseteq new[side][i].sources

\* C24: the sides never change roles, bf_active is 0 and bf_learning is 1 in
\* every state, and no step of the loop empties a Bloom filter or lowers a
\* bucket count, whatever the timestamps of the records.
C24_RotationDisabled ==
    /\ [](bf_active = 0 /\ bf_learning = 1)
    /\ [][pc = "loop" => BucketsKept(v4_flows, v4_flows') /\ BucketsKept(v6_flows, v6_flows')]_vars

\* a bucket has counted two sources of records of one timestamp, and a
\* record of another timestamp has then gone through the new-flow filter
C24_Witness ==
    /\ pc = "loop"
    /\ \E i \in DOMAIN v4_flows[bf_learning] : v4_flows[bf_learning][i].count >= 2
    /\ last.s3 # NoStage
    /\ last.record.first = T100
\* C25: started with -c N, N > 0, the log replay hands at most N records to
\* the output interface, however many data lines the file has.
C25_ReplayCountLimit ==
    replay.c > 0 => Len(replay.sent) <= replay.c
\* the capture threads that are inside a send on the output interface
Sending == {i \in DOMAIN mux.t : mux.t[i].pc \in {"hello_send", "data_send"}}

\* C26: at most one capture thread is inside a send on the output interface,
\* the send of a hello message and the send of data alike.
C26_MuxMutualExclusion == Cardinality(Sending) <= 1

\* a thread is inside the send of a hello message while another thread has
\* a data message to send
C26_Witness ==
    \E i, j \in DOMAIN mux.t :
        /\ i # j
        /\ mux.t[i].pc = "hello_send"
        /\ mux.t[j].pc = "data"
\* w << n truncated to 32 bits
Shl32(w, n) == {b + n : b \in w} \cap (0..31)

\* C27: the IPv4 mask table main has built has mask_v4[0] = 0 and, for L in
\* 1..32, mask_v4[L] = 0xFFFFFFFF << (32 - L) truncated to 32 bits; the AND
\* of an address with mask_v4[L] keeps the L most significant bits of the
\* address and zeroes the rest.
C27_MaskTableV4 ==
    (pc = "loop" /\ last.s1 # NoStage)
        => /\ v4_masks[0] = {}
           /\ \A L \in 1..32 : v4_masks[L] = Shl32(All32, 32 - L)
           /\ \A L \in 0..32 :
                 ui32(last.record.src_addr, 2) \cap v4_masks[L]
                    = ui32(last.record.src_addr, 2) \cap NetMask(L)

\* C28: in the IPv6 mask table main has built the low 64-bit word of
\* mask_v6[L] is 0 for every L in 0..64, and for every L in 65..128 the high
\* word is all ones and the low word has exactly L - 64 bits set.
C28_MaskTableV6 ==
    pc = "loop"
        => /\ \A L \in 0..64 : v6_masks[L][2] = {}
           /\ \A L \in 65..128 :
                 /\ v6_masks[L][1] = All64
                 /\ Cardinality(v6_masks[L][2]) = L - 64
\* the filter pair new is the pair old after a rotation to the sides active
\* and learning: the new learning side has the buckets of the old one, each
\* with count 0 and an empty Bloom filter, and the new active side is as it
\* was
Rotated(old, new, active, learning) ==
    /\ DOMAIN new[learning] = DOMAIN old[learning]
    /\ \A i \in DOMAIN new[learning] : new[learning][i] = FlowCount({}, 0)
    /\ new[active] = old[active]

\* C29: a rotation step (swap_filters, then clear_filters on the new learning
\* side) exchanges the roles of the two sides, leaves bf_active and
\* bf_learning distinct values of {0, 1}, leaves every bucket of the new
\* learning side with count 0 and an empty Bloom filter and the new active
\* side as it was; two swap_filters calls in a row restore the roles.
C29_RotationStep ==
    [][bf_active' # bf_active
          => /\ bf_active' = bf_learning
             /\ bf_learning' = bf_active
             /\ {bf_active', bf_learning'} = {0, 1}
             /\ \/ Rotated(v4_flows, v4_flows', bf_active', bf_learning') /\ UNCHANGED v6_flows
                \/ Rotated(v6_flows, v6_flows', bf_active', bf_learning') /\ UNCHANGED v4_flows
             /\ LET sides == [bf_active |-> bf_active, bf_learning |-> bf_learning]
                IN  swap_filters(swap_filters(sides)) = sides]_vars

\* after a rotation the active side is the one with index 1 and has a bucket
\* with a counted source, and the learning side has buckets, all empty
C29_Witness ==
    /\ bf_active = 1
    /\ \E i \in DOMAIN v4_flows[bf_active] : v4_flows[bf_active][i].count >= 1
    /\ v4_flows[bf_learning] # <<>>
    /\ \A i \in DOMAIN v4_flows[bf_learning] : v4_flows[bf_learning][i] = FlowCount({}, 0)
\* C30: no step of the run loop removes a key from a symmetry map: a key an
\* outbound record has inserted is in the map after every later record.
C30_SymmetryKeysKept ==
    [][pc = "loop" => /\ DOMAIN v4_route_sym \subseteq DOMAIN v4_route_sym'
                     /\ DOMAIN v6_route_sym \subseteq DOMAIN v6_route_sym']_vars

\* the key of two earlier outbound records, the later one outside the
\* rewrite window of the first, is in the map after an inbound record
C30_Witness ==
    /\ last.s2 # NoStage
    /\ last.record.dirbitfield = 1
    /\ \E k \in DOMAIN hist.sym :
          /\ hist.sym[k].n >= 2
          /\ ~hist.sym[k].inwin
          /\ k[2] \in DOMAIN SymMap(k[1])
\* C31: an iteration whose record is inbound and reaches the symmetric
\* routing filter leaves both symmetry maps as they were, keys, link masks
\* and timestamps, whether or not the key of the source is in the map.
C31_InboundKeepsMap ==
    [][(Arrived /\ last'.s2 # NoStage /\ last'.record.dirbitfield # 0)
          => UNCHANGED <<v4_route_sym, v6_route_sym>>]_vars

\* an inbound record whose key is in the map went through the symmetric
\* routing filter
C31_Witness ==
    /\ last.s2 # NoStage
    /\ last.record.dirbitfield # 0
    /\ LET k == SymSrcKey(last.record)
       IN  k[2] \in DOMAIN SymMap(k[1])
\* the two sides of the filter pair have the same buckets: equal counts and
\* Bloom filters with the same members
SidesEqual(filter) ==
    /\ DOMAIN filter[bf_active] = DOMAIN filter[bf_learning]
    /\ \A i \in DOMAIN filter[bf_active] :
          /\ filter[bf_active][i].count = filter[bf_learning][i].count
          /\ filter[bf_active][i].sources = filter[bf_learning][i].sources

\* C32: in every state of the run loop, for both families and every watched
\* prefix i, active[i].count = learning[i].count and a key is in the Bloom
\* filter of active[i] exactly when it is in the one of learning[i].
C32_SidesInStep == pc = "loop" => SidesEqual(v4_flows) /\ SidesEqual(v6_flows)

\* in a run of the loop a bucket of each side has counted two sources
C32_Witness ==
    /\ pc = "loop"
    /\ \E i \in DOMAIN v4_flows[bf_active] :
          /\ v4_flows[bf_active][i].count >= 2
          /\ v4_flows[bf_learning][i].sources # {}
\* the indices whose bucket differs between the filter pairs old and new, on
\* either side
ChangedBuckets(old, new) ==
    {i \in DOMAIN old[bf_active] :
        \E side \in {bf_active, bf_learning} : new[side][i] # old[side][i]}

\* the step from old to new touches at most one index, raises the count of
\* the active side by at most one and lowers no count
OneBucketStep(old, new) ==
    /\ DOMAIN new[bf_active] = DOMAIN old[bf_active]
    /\ DOMAIN new[bf_learning] = DOMAIN old[bf_learning]
    /\ Cardinality(ChangedBuckets(old, new)) <= 1
    /\ \A i \in DOMAIN old[bf_active] :
          /\ new[bf_active][i].count <= old[bf_active][i].count + 1
          /\ new[bf_active][i].count >= old[bf_active][i].count
          /\ new[bf_learning][i].count >= old[bf_learning][i].count

\* C33: an iteration changes the buckets of at most one watched prefix of the
\* family of its record, raises the count of the active side of that bucket by
\* at most one and lowers no count; the buckets of the other family stay.
C33_OneBucketPerRecord ==
    [][Arrived =>
          IF ip_is4(last'.record.src_addr)
          THEN OneBucketStep(v4_flows, v4_flows') /\ UNCHANGED v6_flows
          ELSE OneBucketStep(v6_flows, v6_flows') /\ UNCHANGED v4_flows]_vars

\* the last record was counted in a bucket of its family while another bucket
\* of the family holds a source too
C33_Witness ==
    /\ last.inserted
    /\ ~ip_is4(last.record.src_addr)
    /\ v6_flows[bf_active][last.mid + 1].count >= 1
    /\ \E i \in DOMAIN v6_flows[bf_active] :
          i # last.mid + 1 /\ v6_flows[bf_active][i].count >= 1
\* C34: at every iteration boundary of the loop, v4 + v6 is the number of
\* records of the right size that were processed, spoof_count is the sum of
\* bogons, syms and nflows, and spoof_count is the number of records handed
\* to the output.
C34_CountersAgree ==
    pc = "loop" =>
        /\ cnt.v4 + cnt.v6 = Len(hist.flagged)
        /\ cnt.spoof_count = cnt.bogons + cnt.syms + cnt.nflows
        /\ cnt.spoof_count = Len(out)

\* records were processed, one caught by the new flow count and one let
\* through
C34_Witness ==
    /\ pc = "loop"
    /\ cnt.nflows >= 1
    /\ cnt.spoof_count < cnt.v4 + cnt.v6
\* the branch capture thread i is in, or has taken, agrees with the result of
\* its own last trap_ctx_recv: the error branch for a failed receive only, the
\* hello branch for a changed format only, and data filled in or about to be
\* filled in after a hello exactly when the format had changed
OwnBranch(i) ==
    LET th == mux.t[i]
        passed == th.got \in {TRAP_E_OK, TRAP_E_FORMAT_CHANGED}
    IN  /\ th.pc = "error" => ~passed
        /\ th.pc \in {"test_format", "data"} => passed
        /\ th.pc \in {"hello", "hello_send"} => th.got = TRAP_E_FORMAT_CHANGED
        /\ th.pc = "data" => (th.meta_data.messageID = 2 <=> th.got = TRAP_E_FORMAT_CHANGED)
        /\ th.pc = "data_send" => (th.meta_data.messageID = 1 <=> passed)

\* C35: in every interleaving of the capture threads, the branch a thread
\* takes after its receive (data, hello on a changed format, or error with
\* messageID -1) is the one of the result of its own receive.
C35_OwnReceiveDecides ==
    mux.pc = "parallel" => \A i \in DOMAIN mux.t : OwnBranch(i)
\* a step in which capture thread i comes to fill in the data message of a
\* receive that reported a changed format is the end of the send of its hello
\* message: messageID 2, interfaceID i, the new format
AfterHello(i) ==
    (/\ mux.t[i].got = TRAP_E_FORMAT_CHANGED
     /\ mux.t[i].pc # "data"
     /\ mux'.t[i].pc = "data")
    => /\ mux.t[i].pc = "hello_send"
       /\ mux.t[i].meta_data.messageID = 2
       /\ mux.t[i].meta_data.interfaceID = i
       /\ mux.t[i].meta_data.payload = mux.t[i].data_fmt

\* a step in which capture thread i leaves a send has offered a message with
\* interfaceID i to the output
OwnInterface(i) ==
    (mux.t[i].pc \in {"hello_send", "data_send"} /\ mux'.t[i].pc # mux.t[i].pc)
    => mux.t[i].meta_data.interfaceID = i

\* C36: when the receive of a thread on input i reports a changed format, the
\* thread sends the hello message (messageID 2, interfaceID i, the new format)
\* before the data message (messageID 1) of that receive, and every message a
\* thread sends carries its interfaceID.
C36_HelloBeforeData ==
    [][\A i \in DOMAIN mux.t \cap DOMAIN mux'.t : AfterHello(i) /\ OwnInterface(i)]_vars
====
